---- MODULE Spec2Model ----
(***************************************************************************)
(* Model of src/search.py: the Problem / Node abstractions, the vacuum     *)
(* planning problem on a walled grid, and the search functions             *)
(* (breadth-first, depth-first, best-first as uniform-cost / greedy / A*,  *)
(* and the one-step reflex rule) as dispatched by generateSolution.        *)
(*                                                                         *)
(* A state is a grid cell <<x, y>>.  A Node is a record                    *)
(*   [state, parent, action, path_cost, depth]                             *)
(* whose parent field is <<>> (Python None) or <<parentNode>>.             *)
(* An optional value (Python None or a value v) is <<>> or <<v>>.          *)
(*                                                                         *)
(* Under the StayUp cost function the code adds y / len(map), a fraction;  *)
(* the path_cost field then holds the cost multiplied by len(map)          *)
(* (CostUnit), so that it stays an integer.  Under every other cost        *)
(* function CostUnit is 1 and the field holds the cost itself.             *)
(***************************************************************************)
EXTENDS Integers, Sequences, FiniteSets, TLC

\* ------------------------------------------------------------------------
\* Bounds of the model
W == 3
H == 3
MaxWalls == 2
MaxDirt == 2

\* ------------------------------------------------------------------------
\* Program constants
searchTypes == <<"None", "Reflex", "BFS", "DFS", "UCS", "Greedy", "A*">>
costFunctions == <<"Step", "StepTurn", "StayLeft", "StayUp">>
heuristics == <<"Manhattan", "Euclid">>

\* A selector value that is in none of the three lists above.
Unrecognized == "Other"

VARIABLES
    walls,       \* env: cells holding a Wall
    dirt,        \* env: cells holding Dirt
    location,    \* env.agent.location
    direction,   \* env.agent.direction
    searchType,  \* problem.searchType / env.searchType
    costFunc,    \* env.costFunc
    heuristic,   \* env.args['heuristic']
    pc,          \* position of generateSolution: idle, BFS, DFS, best, done, error
    f,           \* best_first_graph_search: the evaluation function passed in
    node,        \* the search's local `node` (optional)
    front,       \* the search's frontier
    explore,     \* the search's explored set
    path,        \* generateSolution: returned node (optional)
    explored,    \* generateSolution: returned explored collection (optional)
    previous     \* results of the earlier generateSolution calls on this env

vars == <<walls, dirt, location, direction, searchType, costFunc, heuristic,
          pc, f, node, front, explore, path, explored, previous>>

env == <<walls, dirt, location, searchType, costFunc, heuristic>>

\* ------------------------------------------------------------------------
\* Generic helpers
Range(s) == {s[i] : i \in DOMAIN s}

Abs(x) == IF x < 0 THEN -x ELSE x

Min2(a, b) == IF a < b THEN a ELSE b

\* the element of the one-element set S.  Written The({e(x) : x \in {v}}) it
\* stands for LET x == v IN e(x), with v evaluated once.
The(S) == CHOOSE x \in S : TRUE

RECURSIVE Filter(_, _)
\* the elements of sequence s that are in set keep, in s's order
Filter(s, keep) ==
    IF s = <<>> THEN <<>>
    ELSE IF Head(s) \in keep THEN <<Head(s)>> \o Filter(Tail(s), keep)
         ELSE Filter(Tail(s), keep)

\* ------------------------------------------------------------------------
\* Environment (grid) accessors used by the problem
Cells == (0 .. W - 1) \X (0 .. H - 1)

\* a Wall thing is at cell c: an inner wall, or the wall ring around the grid
WallAt(c) == c \in walls \/ c \notin Cells

\* env.some_things_at(state, Dirt)
some_things_at_Dirt(state) == state \in dirt

\* len(env.things): the walls, the dirt and the agent
LenMap == Cardinality(walls) + Cardinality(dirt) + 1

\* ------------------------------------------------------------------------
\* Node
\* a constructor that copies the parent's depth
NodeSameDepth(state, parent, action, path_cost) ==
    [state |-> state, parent |-> parent, action |-> action,
     path_cost |-> path_cost,
     depth |-> IF parent # <<>> THEN parent[1].depth ELSE 0]

Node(state, parent, action, path_cost) ==
    [state |-> state, parent |-> parent, action |-> action,
     path_cost |-> path_cost,
     depth |-> IF parent # <<>> THEN parent[1].depth + 1 ELSE 0]

RECURSIVE path_back(_)
\* Node.path's loop: the node, its parent, ... up to the root
path_back(n) ==
    IF n.parent = <<>> THEN <<n>> ELSE <<n>> \o path_back(n.parent[1])

Reverse(s) == [i \in 1 .. Len(s) |-> s[Len(s) + 1 - i]]

\* Node.path
Path(n) == Reverse(path_back(n))

\* Node.solution
Solution(n) == [i \in 1 .. Len(Path(n)) - 1 |-> Path(n)[i + 1].action]

\* Node.__eq__
NodeEq(a, b) == a.state = b.state

\* Node.__lt__ : Python's lexicographic order on the [x, y] states
NodeLt(a, b) ==
    \/ a.state[1] < b.state[1]
    \/ a.state[1] = b.state[1] /\ a.state[2] < b.state[2]

\* ------------------------------------------------------------------------
\* VacuumPlanning
actions(state) ==
    LET blocked ==
            (IF WallAt(<<state[1], state[2] + 1>>) THEN {"UP"} ELSE {}) \cup
            (IF WallAt(<<state[1], state[2] - 1>>) THEN {"DOWN"} ELSE {}) \cup
            (IF WallAt(<<state[1] + 1, state[2]>>) THEN {"RIGHT"} ELSE {}) \cup
            (IF WallAt(<<state[1] - 1, state[2]>>) THEN {"LEFT"} ELSE {})
    IN  Filter(<<"UP", "DOWN", "LEFT", "RIGHT">>,
               {"UP", "DOWN", "LEFT", "RIGHT"} \ blocked)

\* result sets agent.direction and returns the new state
result(state, action) ==
    [direction |-> action,
     new_state |->
        CASE action = "RIGHT" -> <<state[1] + 1, state[2]>>
          [] action = "LEFT"  -> <<state[1] - 1, state[2]>>
          [] action = "UP"    -> <<state[1], state[2] + 1>>
          [] action = "DOWN"  -> <<state[1], state[2] - 1>>
          [] OTHER            -> state]

goal_test(state) == some_things_at_Dirt(state)

directions == <<"UP", "RIGHT", "DOWN", "LEFT">>

\* list.index
IndexOf(s, x) == CHOOSE i \in DOMAIN s : s[i] = x /\ \A j \in 1 .. i - 1 : s[j] # x

\* a turn cost that does not take the shorter way round
computeTurnCostNoWrap(action1, action) ==
    IF action1 \notin Range(directions) \/ action \notin Range(directions)
    THEN 0
    ELSE Abs(IndexOf(directions, action) - IndexOf(directions, action1)) * 3

computeTurnCost(action1, action) ==
    IF action1 \notin Range(directions) \/ action \notin Range(directions)
    THEN 0
    ELSE LET tc == Abs(IndexOf(directions, action) - IndexOf(directions, action1))
         IN  Min2(tc, 4 - tc) * 3

\* how many units of the path_cost field make a cost of 1
CostUnit == IF costFunc = "StayUp" THEN LenMap ELSE 1

\* a StayLeft that adds the move's displacement in x, not the x reached
path_costDisplacement(curNode, state1, action, state2) ==
    LET cost == curNode.path_cost
    IN  CASE costFunc = "Step" -> cost + 1
          [] costFunc = "StepTurn" ->
                (cost + 1) + computeTurnCost(curNode.action, action)
          [] costFunc = "StayLeft" -> cost + (state2[1] - state1[1])
          [] costFunc = "StayUp" ->
                (cost + CostUnit) + state2[2]
                + (IF searchType = "UCS" /\ action = "DOWN" THEN 5 * CostUnit ELSE 0)
          [] OTHER -> cost

path_cost(curNode, state1, action, state2) ==
    LET cost == curNode.path_cost
    IN  CASE costFunc = "Step" -> cost + 1
          [] costFunc = "StepTurn" ->
                (cost + 1) + computeTurnCost(curNode.action, action)
          [] costFunc = "StayLeft" -> cost + state2[1]
          [] costFunc = "StayUp" ->
                (cost + CostUnit) + state2[2]
                + (IF searchType = "UCS" /\ action = "DOWN" THEN 5 * CostUnit ELSE 0)
          [] OTHER -> cost

\* Node.child_node: the child and the direction that result left on the agent
child_node(n, action) ==
    LET r == result(n.state, action)
    IN  [direction |-> r.direction,
         next_node |-> Node(r.new_state, <<n>>, action,
                            path_cost(n, n.state, action, r.new_state))]

\* a sort that leaves the list as it is
SortNone(acts) == acts

\* the sort of Node.expand: LEFT first, the others in their order (stable)
SortLeftFirst(acts) ==
    Filter(acts, {"LEFT"}) \o Filter(acts, Range(acts) \ {"LEFT"})

\* Node.expand: the children, and the direction the last result call left
expand(n) ==
    The({[children |-> [i \in 1 .. Len(acts) |-> child_node(n, acts[i]).next_node],
          direction |-> IF acts = <<>> THEN direction
                        ELSE child_node(n, acts[Len(acts)]).direction]
         : acts \in {SortLeftFirst(actions(n.state))}})

\* ------------------------------------------------------------------------
\* Heuristics
MinOver(S) == CHOOSE m \in S : \A x \in S : m <= x

findMinManhattanDist(pos) ==
    IF dirt = {} THEN 0
    ELSE MinOver({Abs(pos[1] - room[1]) + Abs(pos[2] - room[2]) : room \in dirt})

findMinEuclidDist(pos) ==
    IF dirt = {} THEN 0
    ELSE MinOver({(pos[1] - room[1]) * (pos[1] - room[1])
                  + (pos[2] - room[2]) * (pos[2] - room[2]) : room \in dirt})

h(n) ==
    IF heuristic = "Manhattan" THEN findMinManhattanDist(n.state)
    ELSE findMinEuclidDist(n.state)

\* ------------------------------------------------------------------------
\* Initial states: an environment, and generateSolution not yet called
InitEnv ==
    /\ walls \in {ws \in SUBSET Cells : Cardinality(ws) <= MaxWalls}
    /\ dirt \in {ds \in SUBSET (Cells \ walls) : Cardinality(ds) <= MaxDirt}
    /\ location \in Cells \ walls
    /\ direction = "UP"

InitCall ==
    /\ pc = "idle"
    /\ f = "None"
    /\ node = <<>>
    /\ front = <<>>
    /\ explore = {}
    /\ path = <<>>
    /\ explored = <<>>
    /\ previous = <<>>

\* a root built at the grid's origin, whatever problem.initial is
RootAtOrigin == Node(<<0, 0>>, <<>>, "None", 0)

\* the root node every search builds from problem.initial
Root == Node(location, <<>>, "None", 0)

\* ------------------------------------------------------------------------
\* breadth_first_graph_search and depth_first_graph_search

\* a membership test that is true of every non-empty frontier
InFrontAny(c, fr) == fr # <<>>

\* a membership test that finds nothing
InFrontNever(c, fr) == FALSE

\* `c in front` on a deque / list of nodes
InFront(c, fr) == \E i \in DOMAIN fr : NodeEq(c, fr[i])

RECURSIVE EnqueueChildren(_, _, _, _, _)
\* the for loop over the actions of the removed node n; c is the child
\* (with the direction result left), fr the frontier so far
EnqueueChildren(n, acts, front0, ex, dir) ==
    IF acts = <<>> THEN [found |-> <<>>, front |-> front0, direction |-> dir]
    ELSE The({
            IF ~(c.next_node.state \in ex \/ InFront(c.next_node, fr))
            THEN IF goal_test(c.next_node.state)
                 THEN [found |-> <<c.next_node>>, front |-> fr,
                       direction |-> c.direction]
                 ELSE EnqueueChildren(n, rest, Append(fr, c.next_node), ex,
                                      c.direction)
            ELSE EnqueueChildren(n, rest, fr, ex, c.direction)
          : c \in {child_node(n, Head(acts))}, fr \in {front0},
            rest \in {Tail(acts)}})

\* a removal from the wrong end of the deque
popleftFromRight(fr) == [item |-> fr[Len(fr)], rest |-> SubSeq(fr, 1, Len(fr) - 1)]

\* a read of the left end that leaves the node in the deque
popleftKeeping(fr) == [item |-> Head(fr), rest |-> fr]

\* deque.popleft
popleft(fr) == [item |-> Head(fr), rest |-> Tail(fr)]

\* list.pop
poplast(fr) == [item |-> fr[Len(fr)], rest |-> SubSeq(fr, 1, Len(fr) - 1)]

\* the part of the two uninformed searches before the loop
StartUninformed(type) ==
    /\ pc = "idle"
    /\ searchType = type
    /\ node' = <<Root>>
    /\ IF goal_test(Root.state)
       THEN /\ pc' = "done"
            /\ path' = <<Root>>
            /\ explored' = <<{Root.state}>>
            /\ UNCHANGED <<front, explore>>
       ELSE /\ pc' = type
            /\ front' = <<Root>>
            /\ explore' = {}
            /\ UNCHANGED <<path, explored>>
    /\ UNCHANGED <<env, direction, f, previous>>

\* one iteration of the while loop, p being the removed node and the rest
UninformedStep(type, p) ==
    /\ pc = type
    /\ front # <<>>
    /\ \E r \in {EnqueueChildren(rm.item, acts, rm.rest,
                                 explore \cup {rm.item.state}, direction)
                  : rm \in {p}, acts \in {actions(p.item.state)}} :
           /\ node' = <<p.item>>
           /\ explore' = explore \cup {p.item.state}
           /\ front' = r.front
           /\ direction' = r.direction
           /\ IF r.found # <<>>
              THEN /\ pc' = "done"
                   /\ path' = r.found
                   /\ explored' = <<explore \cup {p.item.state}>>
              ELSE UNCHANGED <<pc, path, explored>>
    /\ UNCHANGED <<env, f, previous>>

\* the loop ends with an empty frontier
UninformedExhausted(type) ==
    /\ pc = type
    /\ front = <<>>
    /\ pc' = "done"
    /\ path' = <<>>
    /\ explored' = <<explore>>
    /\ UNCHANGED <<env, direction, f, node, front, explore, previous>>

BFSStart == StartUninformed("BFS")

BFSStep == UninformedStep("BFS", popleft(front))

BFSExhausted == UninformedExhausted("BFS")

DFSStart == StartUninformed("DFS")

DFSStep == UninformedStep("DFS", poplast(front))

DFSExhausted == UninformedExhausted("DFS")

\* ------------------------------------------------------------------------
\* PriorityQueue('min', f): a sequence of entries [value, item]

\* an A* that leaves the accumulated path_cost out of f
EvalWithoutPathCost(fname, n) ==
    CASE fname = "path_cost" -> n.path_cost
      [] fname = "h" -> h(n) * CostUnit
      [] fname = "path_cost+h" -> h(n) * CostUnit
      [] OTHER -> 0

\* the evaluation function best_first_graph_search was given, applied to n:
\* uniform_cost_search passes path_cost, generateSolution passes None for
\* Greedy (so problem.h is used), astar_search passes path_cost + h
Eval(fname, n) ==
    CASE fname = "path_cost" -> n.path_cost
      [] fname = "h" -> h(n) * CostUnit
      [] fname = "path_cost+h" -> n.path_cost + h(n) * CostUnit
      [] OTHER -> 0

\* queue.append(item)
PQAppend(q, fname, item) == Append(q, [value |-> Eval(fname, item), item |-> item])

\* the order of the heap's (value, item) pairs
EntryLt(a, b) ==
    \/ a.value < b.value
    \/ a.value = b.value /\ ~NodeEq(a.item, b.item) /\ NodeLt(a.item, b.item)

\* a pop that removes the oldest entry, whatever its f
PQFirstIndex(q) == 1

\* the index queue.pop() removes: a least entry, the earliest of equal ones
PQMinIndex(q) ==
    CHOOSE i \in DOMAIN q :
        /\ \A j \in DOMAIN q : ~EntryLt(q[j], q[i])
        /\ \A j \in 1 .. i - 1 : EntryLt(q[i], q[j])

RemoveAt(q, i) == SubSeq(q, 1, i - 1) \o SubSeq(q, i + 1, Len(q))

\* a pop that returns a least entry and leaves it in the queue
PQPopKeeping(q) ==
    The({[item |-> q[i].item, rest |-> q] : i \in {PQMinIndex(q)}})

\* queue.pop()
PQPop(q) ==
    The({[item |-> q[i].item, rest |-> RemoveAt(q, i)] : i \in {PQMinIndex(q)}})

\* a membership test that finds nothing
PQContainsNever(q, item) == FALSE

\* item in queue
PQContains(q, item) == \E i \in DOMAIN q : NodeEq(q[i].item, item)

\* the index of the first entry equal to item
PQIndex(q, item) ==
    CHOOSE i \in DOMAIN q :
        NodeEq(q[i].item, item) /\ \A j \in 1 .. i - 1 : ~NodeEq(q[j].item, item)

\* queue[item]
PQGet(q, item) == q[PQIndex(q, item)].value

\* del queue[item]
PQDel(q, item) == RemoveAt(q, PQIndex(q, item))

\* ------------------------------------------------------------------------
\* best_first_graph_search

RECURSIVE InsertChildren(_, _, _, _)
\* the for loop over the expanded children cs; c is the child, q the
\* frontier so far
InsertChildren(cs, front0, ex, fname) ==
    IF cs = <<>> THEN front0
    ELSE The({
            IF ~(c.state \in ex \/ PQContains(q, c))
            THEN InsertChildren(rest, PQAppend(q, fname, c), ex, fname)
            ELSE IF PQContains(q, c) /\ ~(Eval(fname, c) >= PQGet(q, c))
                 THEN InsertChildren(rest, PQAppend(PQDel(q, c), fname, c),
                                     ex, fname)
                 ELSE InsertChildren(rest, q, ex, fname)
          : c \in {Head(cs)}, q \in {front0}, rest \in {Tail(cs)}})

\* the evaluation function each strategy hands to best_first_graph_search
EvalOf(type) ==
    CASE type = "UCS" -> "path_cost"
      [] type = "Greedy" -> "h"
      [] type = "A*" -> "path_cost+h"

\* the part of best_first_graph_search before the loop
BestFirstStart ==
    /\ pc = "idle"
    /\ searchType \in {"UCS", "Greedy", "A*"}
    /\ pc' = "best"
    /\ f' = EvalOf(searchType)
    /\ node' = <<Root>>
    /\ front' = PQAppend(<<>>, EvalOf(searchType), Root)
    /\ explore' = {}
    /\ UNCHANGED <<env, direction, path, explored, previous>>

\* an iteration that marks the popped node explored before the goal test
BestFirstGoalExploring ==
    /\ pc = "best"
    /\ front # <<>>
    /\ \E p \in {PQPop(front)} :
           /\ goal_test(p.item.state)
           /\ node' = <<p.item>>
           /\ front' = p.rest
           /\ path' = <<p.item>>
           /\ explore' = explore \cup {p.item.state}
           /\ explored' = <<explore \cup {p.item.state}>>
    /\ pc' = "done"
    /\ UNCHANGED <<env, direction, f, previous>>

\* one iteration of the while loop that pops a goal node
BestFirstGoal ==
    /\ pc = "best"
    /\ front # <<>>
    /\ \E p \in {PQPop(front)} :
           /\ goal_test(p.item.state)
           /\ node' = <<p.item>>
           /\ front' = p.rest
           /\ path' = <<p.item>>
    /\ pc' = "done"
    /\ explored' = <<explore>>
    /\ UNCHANGED <<env, direction, f, explore, previous>>

\* one iteration of the while loop that pops and expands a node
BestFirstStep ==
    /\ pc = "best"
    /\ front # <<>>
    /\ \E p \in {PQPop(front)} :
           /\ ~goal_test(p.item.state)
           /\ \E e \in {expand(p.item)} :
                  /\ node' = <<p.item>>
                  /\ explore' = explore \cup {p.item.state}
                  /\ direction' = e.direction
                  /\ front' = InsertChildren(e.children, p.rest,
                                             explore \cup {p.item.state}, f)
    /\ UNCHANGED <<env, pc, f, path, explored, previous>>

\* the loop ends with an empty frontier
BestFirstExhausted ==
    /\ pc = "best"
    /\ front = <<>>
    /\ pc' = "done"
    /\ path' = <<>>
    /\ explored' = <<explore>>
    /\ UNCHANGED <<env, direction, f, node, front, explore, previous>>

\* ------------------------------------------------------------------------
\* reflexAgentSearch, as called by generateSolution

\* the index of the first neighbour that passes goal_test, 0 when none does
FirstGoal(neighbors) ==
    IF \E i \in DOMAIN neighbors : goal_test(neighbors[i].state)
    THEN CHOOSE i \in DOMAIN neighbors :
            /\ goal_test(neighbors[i].state)
            /\ \A j \in 1 .. i - 1 : ~goal_test(neighbors[j].state)
    ELSE 0

\* the indices random.choice(neighbors) may return
RandomChoice(neighbors) == DOMAIN neighbors

Reflex ==
    /\ pc = "idle"
    /\ searchType = "Reflex"
    /\ \E e \in {expand(Root)} :
           /\ node' = <<Root>>
           /\ direction' = e.direction
           /\ IF FirstGoal(e.children) # 0
              THEN /\ pc' = "done"
                   /\ path' = <<e.children[FirstGoal(e.children)]>>
              ELSE IF RandomChoice(e.children) = {}
                   THEN /\ pc' = "error"
                        /\ path' = path
                   ELSE /\ pc' = "done"
                        /\ \E i \in RandomChoice(e.children) :
                              path' = <<e.children[i]>>
    /\ explored' = <<>>
    /\ UNCHANGED <<env, f, front, explore, previous>>

\* ------------------------------------------------------------------------
\* the other branches of generateSolution's dispatch

\* searchType 'None': a message is printed and the call returns
NotSet ==
    /\ pc = "idle"
    /\ searchType = "None"
    /\ pc' = "done"
    /\ UNCHANGED <<env, direction, f, node, front, explore, path, explored,
                   previous>>

\* a searchType that is none of the known ones reaches the raise
UnknownSearchType ==
    /\ pc = "idle"
    /\ searchType \notin Range(searchTypes)
    /\ pc' = "error"
    /\ UNCHANGED <<env, direction, f, node, front, explore, path, explored,
                   previous>>

\* ------------------------------------------------------------------------
\* A later call of generateSolution on the same environment: the caller
\* keeps what uniform-cost search returned and selects A*
SelectAStar ==
    /\ pc = "done"
    /\ searchType = "UCS"
    /\ previous = <<>>
    /\ previous' = Append(previous, [searchType |-> searchType, path |-> path])
    /\ searchType' = "A*"
    /\ pc' = "idle"
    /\ f' = "None"
    /\ node' = <<>>
    /\ front' = <<>>
    /\ explore' = {}
    /\ path' = <<>>
    /\ explored' = <<>>
    /\ UNCHANGED <<walls, dirt, location, direction, costFunc, heuristic>>

\* ------------------------------------------------------------------------
\* Specifications

\* the selectors of one call: the heuristic is only read by Greedy and A*
Selectors(types, costs, heurs) ==
    /\ searchType \in types
    /\ costFunc \in costs
    /\ heuristic \in IF searchType \in {"Greedy", "A*"} THEN heurs ELSE {"Manhattan"}

BFSActions == BFSStart \/ BFSStep \/ BFSExhausted

DFSActions == DFSStart \/ DFSStep \/ DFSExhausted

BestFirstActions ==
    BestFirstStart \/ BestFirstGoal \/ BestFirstStep \/ BestFirstExhausted

\* The five graph searches, under every cost function and heuristic
Init ==
    /\ InitEnv /\ InitCall
    /\ Selectors({"BFS", "DFS", "UCS", "Greedy", "A*"},
                 Range(costFunctions), Range(heuristics))

Next == BFSActions \/ DFSActions \/ BestFirstActions

Spec == Init /\ [][Next]_vars

\* The five graph searches run to their end: generateSolution is one
\* synchronous call that nothing suspends.  The path-dependent cost function
\* with both heuristics, on environments with at most one dirty cell.
InitFair ==
    /\ InitEnv /\ InitCall
    /\ Cardinality(dirt) <= 1
    /\ Selectors({"BFS", "DFS", "UCS", "Greedy", "A*"},
                 {"StepTurn"}, Range(heuristics))

FairSpec == InitFair /\ [][Next]_vars /\ WF_vars(Next)

\* breadth-first search alone
InitBFS ==
    /\ InitEnv /\ InitCall
    /\ Selectors({"BFS"}, Range(costFunctions), Range(heuristics))

SpecBFS == InitBFS /\ [][BFSActions]_vars

\* uniform-cost search under the three cost functions that never go below 0
InitUCS ==
    /\ InitEnv /\ InitCall
    /\ Selectors({"UCS"}, {"Step", "StepTurn", "StayLeft"}, Range(heuristics))

SpecUCS == InitUCS /\ [][BestFirstActions]_vars

\* uniform-cost search, then A* on the same environment, with unit step
\* cost and the Manhattan heuristic
InitAStar ==
    /\ InitEnv /\ InitCall
    /\ searchType = "UCS"
    /\ costFunc = "Step"
    /\ heuristic = "Manhattan"

NextAStar == BestFirstActions \/ SelectAStar

SpecAStar == InitAStar /\ [][NextAStar]_vars

\* every branch of generateSolution, the selectors being the known values
\* or an unrecognized one
InitSelectors ==
    /\ InitEnv /\ InitCall
    /\ Selectors(Range(searchTypes) \cup {Unrecognized},
                 Range(costFunctions) \cup {Unrecognized},
                 Range(heuristics) \cup {Unrecognized})

NextSelectors ==
    \/ BFSActions \/ DFSActions \/ BestFirstActions
    \/ Reflex \/ NotSet \/ UnknownSearchType

SpecSelectors == InitSelectors /\ [][NextSelectors]_vars

\* the reflex rule alone
InitReflex ==
    /\ InitEnv /\ InitCall
    /\ Selectors({"Reflex"}, Range(costFunctions), Range(heuristics))

SpecReflex == InitReflex /\ [][Reflex]_vars

\* ------------------------------------------------------------------------
\* What the grid itself allows, computed without any search: the states
\* reachable from the initial state, the least number of actions to a goal
\* and the least accumulated path_cost to a goal.

\* the states one legal action away from a state of S
Successors(S) ==
    UNION {{result(s, a).new_state : a \in Range(actions(s))} : s \in S}

RECURSIVE Closure(_)
Closure(S) ==
    The({IF T \subseteq S THEN S ELSE Closure(S \cup T) : T \in {Successors(S)}})

Reachable == Closure({location})

GoalReachable == \E s \in Reachable : goal_test(s)

RECURSIVE StepsToGoal(_, _)
\* S holds the states at most k actions away; meant for GoalReachable
StepsToGoal(S, k) ==
    IF \E s \in S : goal_test(s) THEN k
    ELSE StepsToGoal(S \cup Successors(S), k + 1)

MinSteps == StepsToGoal({location}, 0)

\* the legal moves <<s, a, s2>> between the states of S
Moves(S) ==
    UNION {{<<s, a, result(s, a).new_state>> : a \in Range(actions(s))} : s \in S}

\* A leg <<s, a>> is state s entered by action a ("None" at the start): the
\* cost of a further action depends on both.  Costs[l] is the least
\* accumulated path_cost of an action sequence ending in leg l, Unreached
\* when no sequence is known.
Unreached == 0 - 1

Entering == {"None"} \cup Range(directions)

StartCosts(S) ==
    [l \in S \X Entering |-> IF l = <<location, "None">> THEN 0 ELSE Unreached]

\* the costs of entering leg l by a move of M from a leg that Costs has reached
CostsInto(Costs, M, l) ==
    {path_cost([path_cost |-> Costs[<<m[1], a>>], action |-> a], m[1], m[2], m[3]) :
        <<m, a>> \in {x \in {y \in M : y[2] = l[2] /\ y[3] = l[1]} \X Entering :
                        Costs[<<x[1][1], x[2]>>] # Unreached}}

RelaxOnce(Costs, M) ==
    [l \in DOMAIN Costs |->
        The({IF cs = {} THEN Unreached ELSE MinOver(cs) :
             cs \in {CostsInto(Costs, M, l)
                     \cup (IF Costs[l] # Unreached THEN {Costs[l]} ELSE {})}})]

RECURSIVE Relax(_, _)
Relax(Costs, M) ==
    The({IF C2 = Costs THEN Costs ELSE Relax(C2, M) : C2 \in {RelaxOnce(Costs, M)}})

\* the least path_cost of any action sequence to a goal; for GoalReachable
MinCost ==
    The({MinOver({Costs[l] : l \in {k \in DOMAIN Costs :
                                      goal_test(k[1]) /\ Costs[k] # Unreached}}) :
         Costs \in {Relax(StartCosts(S), Moves(S)) : S \in {Reachable}}})

\* ------------------------------------------------------------------------
\* C1: on every grid with a reachable goal, under Step, StepTurn and
\* StayLeft, the node uniform_cost_search returns has the least accumulated
\* path_cost of all action sequences from the initial state to a goal.
UCSReturnsMinCost ==
    (pc = "done" /\ searchType = "UCS" /\ GoalReachable
     /\ costFunc \in {"Step", "StepTurn", "StayLeft"})
    => (path # <<>> /\ goal_test(path[1].state) /\ path[1].path_cost = MinCost)

\* ------------------------------------------------------------------------
\* C2: on every grid with a reachable goal, the node
\* breadth_first_graph_search returns is a goal at the least number of
\* actions from the initial state.
BFSReturnsMinSteps ==
    (pc = "done" /\ searchType = "BFS" /\ GoalReachable)
    => (/\ path # <<>>
        /\ goal_test(path[1].state)
        /\ path[1].depth = MinSteps
        /\ Len(Solution(path[1])) = MinSteps)

\* breadth-first search returned a path of three or more actions around a wall
BFSReturnsMinStepsWitness ==
    /\ pc = "done" /\ searchType = "BFS"
    /\ path # <<>>
    /\ path[1].depth >= 3
    /\ walls # {}
    /\ path[1].depth > Abs(path[1].state[1] - location[1])
                       + Abs(path[1].state[2] - location[2])

\* ------------------------------------------------------------------------
\* C3: with the Step cost function and the Manhattan heuristic, astar_search
\* returns a goal node whose path_cost equals that of the node
\* uniform_cost_search returned on the same grid, and that cost is the least
\* of all paths to a goal (and both return None on the same grids).
AStarCostEqualsUCSCost ==
    (pc = "done" /\ searchType = "A*")
    => /\ (path = <<>>) <=> (previous[1].path = <<>>)
       /\ path # <<>> =>
            /\ goal_test(path[1].state)
            /\ path[1].path_cost = previous[1].path[1].path_cost
            /\ path[1].path_cost = MinCost

\* A* ended on a grid with walls and two dirty rooms, after uniform-cost
\* search, with a path that is longer than the straight-line estimate
AStarCostEqualsUCSCostWitness ==
    /\ pc = "done" /\ searchType = "A*"
    /\ previous # <<>>
    /\ path # <<>>
    /\ Cardinality(dirt) = 2
    /\ walls # {}
    /\ path[1].path_cost >= 3
    /\ path[1].path_cost > h(Root)

NoneIffNoGoalReachable ==
    pc = "done"
    => /\ (path = <<>>) <=> ~GoalReachable
       /\ path # <<>> => goal_test(path[1].state)
       /\ path = <<>> => front = <<>>

\* None was returned on a grid that has dirt, all of it walled off, after
\* the search explored two or more states
NoneIffNoGoalReachableWitness ==
    /\ pc = "done"
    /\ path = <<>>
    /\ dirt # {}
    /\ Cardinality(explore) >= 2

\* ------------------------------------------------------------------------
\* C6: when the initial state is a goal, every graph search returns the root
\* node and an explored collection that holds exactly the root's state.
RootGoalReturnsSingleton ==
    (pc = "done" /\ goal_test(location))
    => (path = <<Root>> /\ explored = <<{location}>>)

\* ------------------------------------------------------------------------
\* C7: with an unrecognized strategy, cost-function or heuristic selector
\* the call fails before any node is created or expanded; it never searches.
KnownSelectors ==
    /\ searchType \in Range(searchTypes)
    /\ costFunc \in Range(costFunctions)
    /\ heuristic \in Range(heuristics)

UnrecognizedSelectorFails ==
    ~KnownSelectors
    => (pc \in {"idle", "error"} /\ node = <<>> /\ explore = {} /\ path = <<>>)

\* ------------------------------------------------------------------------
\* C8: reflexAgentSearch returns the first neighbour, in expansion order,
\* that passes goal_test when there is one, and otherwise one of the
\* expanded neighbours; the explored result is None in both cases.
ReflexReturnsNeighbor ==
    (searchType = "Reflex" /\ pc # "idle")
    => /\ pc = "done"
       /\ explored = <<>>
       /\ path # <<>>
       /\ path[1] \in Range(expand(Root).children)
       /\ FirstGoal(expand(Root).children) # 0
            => path[1] = expand(Root).children[FirstGoal(expand(Root).children)]

\* ------------------------------------------------------------------------
\* C9: for every node a search has created, solution() has exactly depth
\* many actions, and applying them in order from the root state by result
\* gives the node's state.
RECURSIVE Replay(_, _)
Replay(state, acts) ==
    IF acts = <<>> THEN state
    ELSE Replay(result(state, Head(acts)).new_state, Tail(acts))

\* the nodes the call holds: the current one, the frontier, the returned one
NodesHeld ==
    Range(node) \cup Range(path)
    \cup (IF f = "None" THEN Range(front) ELSE {e.item : e \in Range(front)})

SolutionReplaysToState ==
    \A n \in NodesHeld :
        /\ Len(Solution(n)) = n.depth
        /\ Replay(Path(n)[1].state, Solution(n)) = n.state
        /\ Path(n)[1].state = location

\* a search returned a node four or more actions deep
SolutionReplaysToStateWitness ==
    /\ pc = "done"
    /\ path # <<>>
    /\ path[1].depth >= 4
    /\ Len(Solution(path[1])) >= 4

\* ------------------------------------------------------------------------
\* C10: result has no effect but its return value: no step of a search
\* changes the agent's recorded direction (nor the rest of the environment).
ResultLeavesEnvUnchanged == [][direction' = direction /\ env' = env]_vars

\* ------------------------------------------------------------------------
\* C11: in an iteration of best_first_graph_search that expands a node, for
\* a child whose state is already in the frontier: when the existing entry's
\* f is worse than or equal to the child's f, the entry is removed and the
\* child is in the frontier in its place; when the existing entry's f is
\* strictly better, the child is discarded and the entry stays as it was.
ReplacesWorseOrEqual ==
    [][(pc = "best" /\ pc' = "best" /\ front # <<>>)
       => \A c \in Range(expand(PQPop(front).item).children) :
            PQContains(PQPop(front).rest, c)
            => /\ PQContains(front', c)
               /\ IF PQGet(PQPop(front).rest, c) >= Eval(f, c)
                  THEN front'[PQIndex(front', c)].item = c
                  ELSE front'[PQIndex(front', c)]
                       = PQPop(front).rest[PQIndex(PQPop(front).rest, c)]]_vars

\* ------------------------------------------------------------------------
\* C12: in every reachable state of best_first_graph_search (uniform-cost,
\* greedy, A*) the priority-queue frontier holds at most one entry per
\* distinct state.
FrontierOnePerState ==
    f # "None"
    => \A i, j \in DOMAIN front : NodeEq(front[i].item, front[j].item) => i = j

\* the node just expanded has a legal move into a state that the frontier
\* holds under another parent: its child met an entry already in the frontier
FrontierOnePerStateWitness ==
    /\ pc = "best"
    /\ node # <<>>
    /\ Len(front) >= 3
    /\ node[1].state \in explore
    /\ \E e \in Range(front) : \E a \in Range(actions(node[1].state)) :
         /\ result(node[1].state, a).new_state = e.item.state
         /\ e.item.parent # <<node[1]>>

\* ------------------------------------------------------------------------
\* C13: in breadth_first_graph_search and depth_first_graph_search the
\* children of each removed node are enqueued in the child ordering of
\* Node.expand: LEFT first, then the other legal actions in their original
\* relative order.
RECURSIVE ActionsOfChildren(_, _)
\* the actions of the nodes of frontier fr whose parent is n, in fr's order
ActionsOfChildren(fr, n) ==
    IF fr = <<>> THEN <<>>
    ELSE (IF Head(fr).parent = <<n>> THEN <<Head(fr).action>> ELSE <<>>)
         \o ActionsOfChildren(Tail(fr), n)

ChildrenEnqueuedLeftFirst ==
    [][(pc \in {"BFS", "DFS"} /\ pc' = pc /\ front # <<>>)
       => ActionsOfChildren(front', node'[1])
          = Filter(SortLeftFirst(actions(node'[1].state)),
                   Range(ActionsOfChildren(front', node'[1])))]_vars

\* ------------------------------------------------------------------------
\* C14: in breadth_first_graph_search and depth_first_graph_search each
\* distinct state is enqueued at most once during a call: a node enters the
\* frontier only when its state is neither explored nor in the frontier, a
\* node that leaves the frontier leaves its state explored for good, the
\* node kept for a state is the one first enqueued (no cost comparison), and
\* the frontier never holds two nodes of one state.
EnqueuedAtMostOnce ==
    [][(pc \in {"BFS", "DFS"})
       => (/\ explore \subseteq explore'
           /\ \A i, j \in DOMAIN front' :
                 front'[i].state = front'[j].state => i = j
           /\ \A e \in Range(front') :
                 /\ e.state \notin explore'
                 /\ \/ e \in Range(front)
                    \/ \A o \in Range(front) : o.state # e.state
           /\ \A e \in Range(front) :
                 e \in Range(front') \/ e.state \in explore')]_vars

\* the node just removed has a legal move into a state that the frontier
\* holds under another parent, and its own child for that state has a
\* different path_cost: the later path was dropped whatever its cost
EnqueuedAtMostOnceWitness ==
    /\ pc \in {"BFS", "DFS"}
    /\ node # <<>>
    /\ node[1].state \in explore
    /\ \E e \in Range(front) : \E a \in Range(actions(node[1].state)) :
         /\ child_node(node[1], a).next_node.state = e.state
         /\ e.parent # <<node[1]>>
         /\ child_node(node[1], a).next_node.path_cost < e.path_cost

\* ------------------------------------------------------------------------
\* C15: Node.expand returns exactly one child per legal action of the
\* node's state: the child for LEFT first when LEFT is legal, then the
\* children for UP, DOWN, RIGHT (those not blocked by a wall) in that order;
\* each child is the node's child by that action.
ExpandOneChildPerAction ==
    \A n \in NodesHeld :
        LET cs == expand(n).children
            legal == {a \in {"UP", "DOWN", "LEFT", "RIGHT"} :
                        ~WallAt(result(n.state, a).new_state)}
        IN  /\ [i \in DOMAIN cs |-> cs[i].action]
               = (IF "LEFT" \in legal THEN <<"LEFT">> ELSE <<>>)
                 \o Filter(<<"UP", "DOWN", "RIGHT">>, legal)
            /\ \A i \in DOMAIN cs :
                 /\ cs[i].parent = <<n>>
                 /\ cs[i].state = result(n.state, cs[i].action).new_state
                 /\ cs[i].depth = n.depth + 1

\* best-first search has expanded a node with LEFT and two or more other
\* legal actions, and the frontier holds a child of it
ExpandOneChildPerActionWitness ==
    /\ pc = "best"
    /\ node # <<>>
    /\ node[1].state \in explore
    /\ Len(expand(node[1]).children) >= 3
    /\ expand(node[1]).children[1].action = "LEFT"
    /\ \E e \in Range(front) : e.item.parent = <<node[1]>>

\* ------------------------------------------------------------------------
\* C16: under StepTurn a child's path_cost is its parent's path_cost
\* + 1 + 3 * min(d, 4 - d), d being the distance between the parent's and the
\* child's action in the order UP, RIGHT, DOWN, LEFT; the penalty is 0 for a
\* repeated action and for a move out of the root (which has no action), so
\* a straight path of k moves from the root costs k.
StepTurnCost ==
    costFunc = "StepTurn"
    => \A n \in NodesHeld :
        LET idx == [a \in {"UP", "RIGHT", "DOWN", "LEFT"} |->
                        CASE a = "UP" -> 0 [] a = "RIGHT" -> 1
                          [] a = "DOWN" -> 2 [] a = "LEFT" -> 3]
            penalty(a1, a2) ==
                IF a1 = "None" THEN 0
                ELSE LET d == Abs(idx[a1] - idx[a2])
                     IN  3 * (IF d < 4 - d THEN d ELSE 4 - d)
        IN  /\ \A a \in Range(actions(n.state)) :
                 child_node(n, a).next_node.path_cost
                 = n.path_cost + 1 + penalty(n.action, a)
            /\ n.parent # <<>>
               => n.path_cost
                  = n.parent[1].path_cost + 1 + penalty(n.parent[1].action, n.action)
            /\ (\A i \in 1 .. Len(Solution(n)) : Solution(n)[i] = Solution(n)[1])
               => n.path_cost = n.depth

\* a search under StepTurn holds a node that moved UP and then turned LEFT
\* (the two ends of the order, a quarter turn), and a node that went
\* straight for two moves
StepTurnCostWitness ==
    /\ costFunc = "StepTurn"
    /\ \E n \in NodesHeld :
         /\ n.parent # <<>>
         /\ n.action = "LEFT"
         /\ n.parent[1].action = "UP"
         /\ n.path_cost = n.parent[1].path_cost + 4
    /\ \E n \in NodesHeld :
         /\ n.depth = 2
         /\ n.path_cost = 2

\* ------------------------------------------------------------------------
\* C17: under Step, StepTurn and StayLeft the path_cost of every node a
\* search generates is greater than or equal to its parent's: path_cost never
\* decreases along a path from the root, and the root's is 0.
PathCostNonDecreasing ==
    costFunc \in {"Step", "StepTurn", "StayLeft"}
    => \A n \in NodesHeld :
        /\ Path(n)[1].path_cost = 0
        /\ \A i \in 1 .. Len(Path(n)) - 1 :
             Path(n)[i].path_cost <= Path(n)[i + 1].path_cost
        /\ \A a \in Range(actions(n.state)) :
             child_node(n, a).next_node.path_cost >= n.path_cost

\* a search under StayLeft holds a node three or more moves deep that has a
\* step of cost 0 (a move within the column x = 0) and a step of cost > 0
PathCostNonDecreasingWitness ==
    /\ costFunc = "StayLeft"
    /\ \E n \in NodesHeld :
         /\ n.depth >= 3
         /\ \E i \in 1 .. Len(Path(n)) - 1 :
              Path(n)[i].path_cost = Path(n)[i + 1].path_cost
         /\ \E i \in 1 .. Len(Path(n)) - 1 :
              Path(n)[i].path_cost < Path(n)[i + 1].path_cost

\* ------------------------------------------------------------------------
\* C18: when a graph search returns a goal node that is not the root, the
\* explored set it returns is exactly the set of states removed from the
\* frontier and expanded before the goal was found (it starts empty and each
\* iteration adds the state of the node it removes and expands, nothing
\* else), and it holds no state that passes goal_test, the returned node's
\* state included.
ExploredIsExpandedBeforeGoal ==
    [][/\ (pc = "idle" /\ pc' # "done") => explore' = {}
       /\ (pc \in {"BFS", "DFS"} /\ front # <<>>)
          => explore' = explore \cup
                {(IF pc = "BFS" THEN Head(front) ELSE front[Len(front)]).state}
       /\ (pc = "best" /\ front # <<>>)
          => \E e \in Range(front) :
                /\ \A o \in Range(front) : e.value <= o.value
                /\ node' = <<e.item>>
                /\ explore' = IF goal_test(e.item.state) THEN explore
                              ELSE explore \cup {e.item.state}
       /\ (pc' = "done" /\ path' # <<>> /\ path'[1].parent # <<>>)
          => (/\ explored' = <<explore'>>
              /\ \A s \in explore' : ~goal_test(s)
              /\ path'[1].state \notin explore')]_vars

\* a search returned a goal two or more moves from the root with three or
\* more explored states
ExploredIsExpandedBeforeGoalWitness ==
    /\ pc = "done"
    /\ path # <<>>
    /\ path[1].depth >= 2
    /\ explored # <<>>
    /\ Cardinality(explored[1]) >= 3

\* ------------------------------------------------------------------------
\* C19: at every point of every graph-search call the explored set only
\* grows and holds only states reachable from the initial state, so the
\* returned explored collection never has more states than there are
\* reachable ones.
ExploredGrowsWithinReachable ==
    [][\A R \in {Reachable} :
          /\ explore \subseteq explore'
          /\ explore' \subseteq R
          /\ explored' # <<>>
             => (/\ explored'[1] \subseteq R
                 /\ Cardinality(explored'[1]) <= Cardinality(R))]_vars

\* a search returned with every reachable state explored, four or more of
\* them, on a grid where walls cut some free cell off
ExploredGrowsWithinReachableWitness ==
    /\ pc = "done"
    /\ explored # <<>>
    /\ explored[1] = Reachable
    /\ Cardinality(explored[1]) >= 4
    /\ Reachable # Cells \ walls

\* ------------------------------------------------------------------------
\* C20: in uniform_cost_search under Step, StepTurn and StayLeft the nodes
\* popped from the frontier have non-decreasing path_cost: no node is popped
\* with a path_cost lower than that of the node popped before it (and so of
\* any node popped earlier in the call).
UCSPopsNonDecreasing ==
    [][(pc = "best" /\ front # <<>> /\ searchType = "UCS"
        /\ costFunc \in {"Step", "StepTurn", "StayLeft"})
       => (/\ node' # <<>>
           /\ node'[1] \in {e.item : e \in Range(front)}
           /\ node'[1].path_cost >= node[1].path_cost)]_vars

\* uniform-cost search under StepTurn has popped four or more nodes, the
\* last one at a path_cost of 5 or more (a path with a turn in it)
UCSPopsNonDecreasingWitness ==
    /\ pc = "best"
    /\ searchType = "UCS"
    /\ costFunc = "StepTurn"
    /\ node # <<>>
    /\ node[1].path_cost >= 5
    /\ Cardinality(explore) >= 4

\* ------------------------------------------------------------------------
\* C21: in best_first_graph_search (uniform-cost, greedy, A*) no state is
\* popped and expanded more than once in a call (a popped node's state is
\* not yet explored), and at every point the states of the frontier and the
\* explored set are disjoint: no node is inserted for an explored state,
\* even when a later path reaches it with a lower f.
NoReexpansion ==
    [][(f' # "None")
       => (/\ \A e \in Range(front') : e.item.state \notin explore'
           /\ (pc = "best" /\ front # <<>>)
              => (/\ node'[1].state \notin explore
                  /\ \A e \in Range(front') :
                        e.item.state \in explore
                        => \E o \in Range(front) : o.item.state = e.item.state)
           /\ explore \subseteq explore')]_vars

\* the node just expanded has a legal move into an explored state, an
\* ancestor of a node the search holds, and its child for that state has a
\* lower f than the node that state was expanded with; the frontier holds
\* no node for it
NoReexpansionWitness ==
    /\ pc = "best"
    /\ node # <<>>
    /\ node[1].state \in explore
    /\ \E n \in NodesHeld : \E i \in 1 .. Len(Path(n)) :
         \E a \in Range(actions(node[1].state)) :
            /\ Path(n)[i].state \in explore
            /\ child_node(node[1], a).next_node.state = Path(n)[i].state
            /\ Eval(f, child_node(node[1], a).next_node) < Eval(f, Path(n)[i])
            /\ \A e \in Range(front) : e.item.state # Path(n)[i].state

====
